---------------------------- MODULE Spec2Model ----------------------------
(***************************************************************************)
(* Request-handling layer of the library catalog (catalog/views.py).       *)
(*                                                                         *)
(* State: the catalog store (authors, books, book_instances), the session  *)
(* store, the current date, the home-page requests in flight and the       *)
(* response of the last completed request.  One action per view.           *)
(*                                                                         *)
(* Dates are day numbers.  A nullable date is a sequence: <<>> is NULL and *)
(* <<d>> is the date d.  A nullable user reference is a user name or       *)
(* "None".                                                                 *)
(***************************************************************************)
EXTENDS Integers, Sequences, FiniteSets

VARIABLES
    authors,         \* pk -> Author row
    books,           \* pk -> Book row
    book_instances,  \* pk -> BookInstance row
    session,         \* caller -> session dictionary (num_visits: <<>> or <<n>>)
    today,           \* datetime.date.today()
    requests,        \* home-page requests in flight (read/write are two steps)
    resp             \* the response of the last completed request

vars == <<authors, books, book_instances, session, today, requests, resp>>

-----------------------------------------------------------------------------
(* Callers and the access-control service                                  *)

Users == {"anon", "member", "librarian"}

can_mark_returned == "catalog.can_mark_returned"

user_permissions ==
    [u \in Users |-> IF u = "librarian" THEN {can_mark_returned} ELSE {}]

is_authenticated(u) == u # "anon"

has_perm(u, perm) == perm \in user_permissions[u]

\* datetime.timedelta(weeks=n), in days
weeks(n) == 7 * n

-----------------------------------------------------------------------------
(* Responses                                                               *)

HttpResponseRedirect(to) == [status |-> 302, location |-> to]
RedirectToLogin == HttpResponseRedirect("login")
PermissionDenied == [status |-> 403, location |-> ""]
Http404 == [status |-> 404, location |-> ""]
render(template) == [status |-> 200, location |-> template]

\* reverse() / reverse_lazy() of the URL names the views use
reverse(name) == name

\* The request a response answers, with the outcome and what was rendered.
Response(view, user, method, pk, outcome, extra) ==
    [view |-> view, user |-> user, method |-> method, pk |-> pk,
     status |-> outcome.status, location |-> outcome.location,
     extra |-> extra]

NoExtra == [none |-> TRUE]

\* No response is being returned: the worker is free to take a request.
NoResponse == Response("", "anon", "", 0, render(""), NoExtra)

\* The view's return: the response is handed back and the worker is free again.
ResponseSent ==
    /\ resp # NoResponse
    /\ resp' = NoResponse
    /\ UNCHANGED <<authors, books, book_instances, session, today, requests>>

permission_required_login_only(u, perm) ==
    IF ~is_authenticated(u) THEN RedirectToLogin ELSE render("pass")

\* @login_required: an anonymous caller is sent to the login page.
\* @permission_required(perm, raise_exception=True): PermissionDenied.
\* "pass" lets the view body run.

permission_required(u, perm) ==
    IF ~is_authenticated(u) THEN RedirectToLogin
    ELSE IF ~has_perm(u, perm) THEN PermissionDenied
    ELSE render("pass")

Passes(gate) == gate.location = "pass"

-----------------------------------------------------------------------------
(* BookInstance rows                                                       *)

LOAN_STATUS == {"m", "o", "a", "r"}

\* The store holds MaxInstances copies; requests also name one absent pk.
MaxInstances == 2
InstanceIds == 1..MaxInstances
RequestIds == 1..(MaxInstances + 1)

Borrowers == {"None", "member"}

get_object_or_404_first_row(table, pk) ==
    IF pk \in DOMAIN table THEN <<table[pk]>>
    ELSE IF DOMAIN table # {} THEN <<table[CHOOSE k \in DOMAIN table : TRUE]>>
    ELSE <<>>

get_object_or_404(table, pk) == IF pk \in DOMAIN table THEN <<table[pk]>> ELSE <<>>

-----------------------------------------------------------------------------
(* RenewBookForm (catalog/forms.py)                                        *)

\* POST data: whether the renewal_date text parses as a date, and the date.
PostDates == {today - 1, today, today + weeks(4), today + weeks(4) + 1}
PostData ==
    [text_is_date : {TRUE}, date : PostDates] \cup
    [text_is_date : {FALSE}, date : {today}]

clean_renewal_date(data, now) ==
    IF ~data.text_is_date THEN "Enter a valid date."
    ELSE IF data.date < now THEN "Invalid date - renewal in past"
    ELSE IF data.date > now + weeks(4) THEN "Invalid date - renewal more than 4 weeks ahead"
    ELSE ""

is_valid(data, now) == clean_renewal_date(data, now) = ""

cleaned_data(data) == <<data.date>>

-----------------------------------------------------------------------------
(* renew_book_librarian                                                    *)

renew_store_unvalidated(pk, method, data) ==
    IF method = "POST" /\ data.text_is_date
    THEN [book_instances EXCEPT ![pk].due_back = cleaned_data(data)]
    ELSE book_instances

renew_store_without_save(pk, method, data) == book_instances

renew_store_marks_on_loan(pk, method, data) ==
    IF method = "POST" /\ is_valid(data, today)
    THEN [book_instances EXCEPT ![pk].due_back = cleaned_data(data), ![pk].status = "o"]
    ELSE book_instances

renew_store(pk, method, data) ==
    IF method = "POST" /\ is_valid(data, today)
    THEN [book_instances EXCEPT ![pk].due_back = cleaned_data(data)]
    ELSE book_instances

renew_response(pk, method, data) ==
    IF method = "POST"
    THEN IF is_valid(data, today)
         THEN HttpResponseRedirect(reverse("all-borrowed"))
         ELSE render("catalog/book_renew_librarian.html")
    ELSE render("catalog/book_renew_librarian.html")

renew_form(method, data) ==
    IF method = "POST"
    THEN [bound |-> TRUE, renewal_date |-> data,
          error |-> clean_renewal_date(data, today)]
    ELSE [bound |-> FALSE,
          renewal_date |-> [text_is_date |-> TRUE, date |-> today + weeks(3)],
          error |-> ""]

renew_book_librarian(u, pk, method, data) ==
    LET gate == permission_required(u, can_mark_returned) IN
    IF ~Passes(gate)
    THEN /\ resp' = Response("renew_book_librarian", u, method, pk, gate,
                             [form |-> renew_form("GET", data), data |-> data])
         /\ UNCHANGED book_instances
    ELSE IF get_object_or_404(book_instances, pk) = <<>>
    THEN /\ resp' = Response("renew_book_librarian", u, method, pk, Http404,
                             [form |-> renew_form("GET", data), data |-> data])
         /\ UNCHANGED book_instances
    ELSE /\ book_instances' = renew_store(pk, method, data)
         /\ resp' = Response("renew_book_librarian", u, method, pk,
                             renew_response(pk, method, data),
                             [form |-> renew_form(method, data), data |-> data])

Renew ==
    \E u \in Users, pk \in RequestIds, method \in {"GET", "POST"}, data \in PostData :
        /\ resp = NoResponse
        /\ (method = "GET" => data = [text_is_date |-> FALSE, date |-> today])
        /\ renew_book_librarian(u, pk, method, data)
        /\ UNCHANGED <<authors, books, session, today, requests>>

-----------------------------------------------------------------------------
(* The borrowed lists                                                      *)

\* objects.filter(field=value): the keys of the rows kept
filter_status(rows, status) == {pk \in DOMAIN rows : rows[pk].status = status}
filter_borrower(rows, u) == {pk \in DOMAIN rows : rows[pk].borrower = u}

\* ORDER BY due_back ASC: where NULLs sort is the database's choice.
due_back_le(a, b, nulls_first) ==
    IF a = <<>> THEN nulls_first \/ b = <<>>
    ELSE IF b = <<>> THEN ~nulls_first
    ELSE a[1] <= b[1]

order_by_due_back(pks) ==
    LET n == Cardinality(pks) IN
    {q \in [1..n -> pks] :
        /\ \A i, j \in 1..n : i # j => q[i] # q[j]
        /\ \E nulls_first \in BOOLEAN :
              \A i, j \in 1..n : i < j =>
                  due_back_le(book_instances[q[i]].due_back,
                              book_instances[q[j]].due_back, nulls_first)}

LoanedBooksByUser_get_queryset_any_status(u) ==
    order_by_due_back(filter_borrower(book_instances, u))

LoanedBooksByUser_get_queryset(u) ==
    order_by_due_back(
        filter_borrower(book_instances, u) \cap filter_status(book_instances, "o"))

Borrowed_get_queryset ==
    order_by_due_back(filter_status(book_instances, "o"))

\* LoginRequiredMixin
login_required(u) == IF ~is_authenticated(u) THEN RedirectToLogin ELSE render("pass")

LoanedBooksByUserListView ==
    \E u \in Users :
        LET gate == login_required(u) IN
        /\ resp = NoResponse
        /\ IF ~Passes(gate)
           THEN resp' = Response("LoanedBooksByUserListView", u, "GET", 0, gate,
                                 [object_list |-> <<>>])
           ELSE \E q \in LoanedBooksByUser_get_queryset(u) :
                    resp' = Response("LoanedBooksByUserListView", u, "GET", 0,
                                     render("catalog/bookinstance_list_borrowed_user.html"),
                                     [object_list |-> q])
        /\ UNCHANGED <<authors, books, book_instances, session, today, requests>>

BorrowedListView ==
    \E u \in Users :
        LET gate == permission_required(u, can_mark_returned) IN
        /\ resp = NoResponse
        /\ IF ~Passes(gate)
           THEN resp' = Response("BorrowedListView", u, "GET", 0, gate,
                                 [object_list |-> <<>>])
           ELSE \E q \in Borrowed_get_queryset :
                    resp' = Response("BorrowedListView", u, "GET", 0,
                                     render("catalog/borrowed_list.html"),
                                     [object_list |-> q])
        /\ UNCHANGED <<authors, books, book_instances, session, today, requests>>

-----------------------------------------------------------------------------
(* Titles and the title filter of the home page                            *)

UPPER == <<"A","B","C","D","E","F","G","H","I","J","K","L","M",
           "N","O","P","Q","R","S","T","U","V","W","X","Y","Z">>
LOWER == <<"a","b","c","d","e","f","g","h","i","j","k","l","m",
           "n","o","p","q","r","s","t","u","v","w","x","y","z">>

\* str.lower(), character by character
char_lower(c) ==
    IF \E i \in 1..Len(UPPER) : UPPER[i] = c
    THEN LOWER[CHOOSE i \in 1..Len(UPPER) : UPPER[i] = c]
    ELSE c

lower(str) == [i \in 1..Len(str) |-> char_lower(str[i])]

\* substring test, comparing characters exactly
substring_of(needle, str) ==
    \E k \in 0..(Len(str) - Len(needle)) :
        \A i \in 1..Len(needle) : str[k + i] = needle[i]

GameOfThrones == <<"g","a","m","e"," ","o","f"," ","t","h","r","o","n","e","s">>

TitleAGameOfThrones ==
    <<"A"," ","G","a","m","e"," ","o","f"," ","T","h","r","o","n","e","s">>
TitleGameOfIce == <<"G","a","m","e"," ","O","f"," ","I","c","e">>
TitleLowerCase == <<"a"," ","g","a","m","e"," ","o","f"," ","t","h","r","o","n","e","s">>
TitleDune == <<"D","u","n","e">>

Titles == {TitleAGameOfThrones, TitleGameOfIce, TitleLowerCase, TitleDune}

\* The field lookup title__contains: LIKE '%needle%'.  The comparison is
\* exact on a database whose LIKE is case-sensitive, and folds ASCII case on
\* one whose LIKE is not (SQLite).
title__contains(title, needle, like_is_case_sensitive) ==
    IF like_is_case_sensitive
    THEN substring_of(needle, title)
    ELSE substring_of(lower(needle), lower(title))

count(pks) == Cardinality(pks)

-----------------------------------------------------------------------------
(* index: the home page                                                    *)

\* request.session.get('num_visits', default)
session_get(stored, default) == IF stored = <<>> THEN default ELSE stored[1]

MaxRequests == 2
MaxVisits == 3
RequestSlots == 1..MaxRequests

Idle == [pc |-> "idle", user |-> "anon", num_visits |-> 0, overlapped |-> FALSE]

InFlight(r) == requests[r].pc # "idle"

\* Lines 17-27: the first counts, then the read of the session counter.
\* overlapped records that another request of the same caller was in flight
\* at some time during this one.
IndexRead(r, u) ==
    /\ ~InFlight(r)
    /\ session_get(session[u], 0) < MaxVisits
    /\ requests' =
         [q \in RequestSlots |->
            IF q = r
            THEN [pc |-> "read", user |-> u,
                  num_visits |-> session_get(session[u], 0),
                  overlapped |-> \E o \in RequestSlots \ {r} :
                                     InFlight(o) /\ requests[o].user = u]
            ELSE IF InFlight(q) /\ requests[q].user = u
            THEN [requests[q] EXCEPT !.overlapped = TRUE]
            ELSE requests[q]]
    /\ UNCHANGED <<authors, books, book_instances, session, today, resp>>

index_session_write_atomic(u, num_visits) ==
    [session EXCEPT ![u] = <<session_get(session[u], 0) + 1>>]

\* Line 28: request.session['num_visits'] = num_visits + 1
index_session_write(u, num_visits) ==
    [session EXCEPT ![u] = <<num_visits + 1>>]

index_num_title(like_is_case_sensitive) ==
    count({pk \in DOMAIN books :
             title__contains(books[pk].title, lower(GameOfThrones),
                             like_is_case_sensitive)})

\* Lines 28-48: the write of the session counter, the last counts, the page.
\* The catalog does not change while a home-page request is in flight, so
\* the counts of lines 17-24 are taken here with the others.  Genre rows are
\* not part of the state; num_genre is left out of the context.
IndexWrite(r) ==
    /\ InFlight(r)
    /\ resp = NoResponse
    /\ session' = index_session_write(requests[r].user, requests[r].num_visits)
    /\ requests' = [requests EXCEPT ![r] = Idle]
    /\ \E like_is_case_sensitive \in BOOLEAN :
         resp' = Response("index", requests[r].user, "GET", 0, render("index.html"),
                    [num_books |-> count(DOMAIN books),
                     num_instances |-> count(DOMAIN book_instances),
                     num_instances_available |->
                        count(filter_status(book_instances, "a")),
                     num_authors |-> count(DOMAIN authors),
                     num_title |-> index_num_title(like_is_case_sensitive),
                     num_visits |-> requests[r].num_visits,
                     overlapped |-> requests[r].overlapped,
                     like_is_case_sensitive |-> like_is_case_sensitive])
    /\ UNCHANGED <<authors, books, book_instances, today>>

-----------------------------------------------------------------------------
(* Author and Book: detail, create, update, delete                         *)

MaxAuthors == 2
MaxBooks == 2
AuthorIds == 1..MaxAuthors
BookIds == 1..MaxBooks

EmptyTable == [pk \in {} |-> pk]

insert(table, pk, row) ==
    [k \in DOMAIN table \cup {pk} |-> IF k = pk THEN row ELSE table[k]]

update(table, pk, row) == [table EXCEPT ![pk] = row]

delete(table, pk) == [k \in DOMAIN table \ {pk} |-> table[k]]

\* Submitted forms: the editable fields, and whether the form layer accepts them.
AuthorForms == [valid : BOOLEAN, row : [last_name : {"Martin", "Herbert"}]]
BookForms == [valid : BOOLEAN, row : [title : {TitleAGameOfThrones, TitleDune}]]
NoForm == [valid |-> FALSE, row |-> [none |-> TRUE]]

\* LoginRequiredMixin, PermissionRequiredMixin with
\* permission_required = 'catalog.can_mark_returned'
PermissionRequiredMixin_login_only(u) == login_required(u)

PermissionRequiredMixin(u) ==
    IF ~is_authenticated(u) THEN RedirectToLogin
    ELSE IF ~has_perm(u, can_mark_returned) THEN PermissionDenied
    ELSE render("pass")

\* generic.DetailView
DetailView(table, pk, template) ==
    IF get_object_or_404(table, pk) = <<>> THEN Http404 ELSE render(template)

\* CreateView: the new table and the response.  The store assigns the key.
CreateView(table, u, method, form, newpk, template, detail) ==
    LET gate == PermissionRequiredMixin(u) IN
    IF ~Passes(gate) THEN [table |-> table, outcome |-> gate]
    ELSE IF method = "POST" /\ form.valid
    THEN [table |-> insert(table, newpk, form.row),
          outcome |-> HttpResponseRedirect(reverse(detail))]
    ELSE [table |-> table, outcome |-> render(template)]

\* UpdateView
UpdateView(table, u, pk, method, form, template, detail) ==
    LET gate == PermissionRequiredMixin(u) IN
    IF ~Passes(gate) THEN [table |-> table, outcome |-> gate]
    ELSE IF get_object_or_404(table, pk) = <<>>
    THEN [table |-> table, outcome |-> Http404]
    ELSE IF method = "POST" /\ form.valid
    THEN [table |-> update(table, pk, form.row),
          outcome |-> HttpResponseRedirect(reverse(detail))]
    ELSE [table |-> table, outcome |-> render(template)]

DeleteView_keeps_row(table, u, pk, method, template, success_url) ==
    LET gate == PermissionRequiredMixin(u) IN
    IF ~Passes(gate) THEN [table |-> table, outcome |-> gate]
    ELSE IF get_object_or_404(table, pk) = <<>>
    THEN [table |-> table, outcome |-> Http404]
    ELSE IF method = "POST"
    THEN [table |-> table, outcome |-> HttpResponseRedirect(success_url)]
    ELSE [table |-> table, outcome |-> render(template)]

\* DeleteView: GET asks for confirmation, POST deletes.
DeleteView(table, u, pk, method, template, success_url) ==
    LET gate == PermissionRequiredMixin(u) IN
    IF ~Passes(gate) THEN [table |-> table, outcome |-> gate]
    ELSE IF get_object_or_404(table, pk) = <<>>
    THEN [table |-> table, outcome |-> Http404]
    ELSE IF method = "POST"
    THEN [table |-> delete(table, pk), outcome |-> HttpResponseRedirect(success_url)]
    ELSE [table |-> table, outcome |-> render(template)]

Methods == {"GET", "POST"}

BookDetailView ==
    \E u \in Users, pk \in BookIds :
        /\ resp = NoResponse
        /\ resp' = Response("BookDetailView", u, "GET", pk,
                            DetailView(books, pk, "catalog/book_detail.html"), NoExtra)
        /\ UNCHANGED <<authors, books, book_instances, session, today, requests>>

AuthorDetailView ==
    \E u \in Users, pk \in AuthorIds :
        /\ resp = NoResponse
        /\ resp' = Response("AuthorDetailView", u, "GET", pk,
                            DetailView(authors, pk, "catalog/author_detail.html"), NoExtra)
        /\ UNCHANGED <<authors, books, book_instances, session, today, requests>>

AuthorCreate ==
    \E u \in Users, method \in Methods, form \in AuthorForms,
       newpk \in AuthorIds \ DOMAIN authors :
        LET r == CreateView(authors, u, method, form, newpk,
                            "catalog/author_form.html", "author-detail") IN
        /\ resp = NoResponse
        /\ authors' = r.table
        /\ resp' = Response("AuthorCreate", u, method,
                            IF r.outcome.status = 302 /\ Passes(PermissionRequiredMixin(u))
                            THEN newpk ELSE 0,
                            r.outcome,
                            [form |-> IF method = "POST" THEN form ELSE NoForm,
                             initial |-> [date_of_death |-> "11/06/2022"]])
        /\ UNCHANGED <<books, book_instances, session, today, requests>>

AuthorUpdate ==
    \E u \in Users, pk \in AuthorIds, method \in Methods, form \in AuthorForms :
        LET r == UpdateView(authors, u, pk, method, form,
                            "catalog/author_form.html", "author-detail") IN
        /\ resp = NoResponse
        /\ authors' = r.table
        /\ resp' = Response("AuthorUpdate", u, method, pk, r.outcome,
                            [form |-> IF method = "POST" THEN form ELSE NoForm])
        /\ UNCHANGED <<books, book_instances, session, today, requests>>

AuthorDelete ==
    \E u \in Users, pk \in AuthorIds, method \in Methods :
        LET r == DeleteView(authors, u, pk, method,
                            "catalog/author_confirm_delete.html", reverse("authors")) IN
        /\ resp = NoResponse
        /\ authors' = r.table
        /\ resp' = Response("AuthorDelete", u, method, pk, r.outcome, NoExtra)
        /\ UNCHANGED <<books, book_instances, session, today, requests>>

BookCreate ==
    \E u \in Users, method \in Methods, form \in BookForms,
       newpk \in BookIds \ DOMAIN books :
        LET r == CreateView(books, u, method, form, newpk,
                            "catalog/book_form.html", "book-detail") IN
        /\ resp = NoResponse
        /\ books' = r.table
        /\ resp' = Response("BookCreate", u, method,
                            IF r.outcome.status = 302 /\ Passes(PermissionRequiredMixin(u))
                            THEN newpk ELSE 0,
                            r.outcome,
                            [form |-> IF method = "POST" THEN form ELSE NoForm])
        /\ UNCHANGED <<authors, book_instances, session, today, requests>>

BookUpdate ==
    \E u \in Users, pk \in BookIds, method \in Methods, form \in BookForms :
        LET r == UpdateView(books, u, pk, method, form,
                            "catalog/book_form.html", "book-detail") IN
        /\ resp = NoResponse
        /\ books' = r.table
        /\ resp' = Response("BookUpdate", u, method, pk, r.outcome,
                            [form |-> IF method = "POST" THEN form ELSE NoForm])
        /\ UNCHANGED <<authors, book_instances, session, today, requests>>

BookDelete ==
    \E u \in Users, pk \in BookIds, method \in Methods :
        LET r == DeleteView(books, u, pk, method,
                            "catalog/book_confirm_delete.html", reverse("books")) IN
        /\ resp = NoResponse
        /\ books' = r.table
        /\ resp' = Response("BookDelete", u, method, pk, r.outcome, NoExtra)
        /\ UNCHANGED <<authors, book_instances, session, today, requests>>

-----------------------------------------------------------------------------
(* Initial states and specifications                                       *)

FirstDay == 30

InitDueBack == {<<>>, <<FirstDay>>}

Instance(due_back, status, borrower) ==
    [book |-> 1, imprint |-> "imprint", due_back |-> due_back,
     status |-> status, borrower |-> borrower]

\* The renewal workflow and the borrowed lists, over every store of
\* MaxInstances copies.
InitRenew ==
    /\ today = FirstDay
    /\ book_instances \in
         [InstanceIds -> {Instance(d, s, b) :
                            d \in InitDueBack, s \in LOAN_STATUS, b \in Borrowers}]
    /\ authors = EmptyTable
    /\ books = EmptyTable
    /\ session = [u \in Users |-> <<>>]
    /\ requests = [r \in RequestSlots |-> Idle]
    /\ resp = NoResponse

NextRenew == Renew \/ LoanedBooksByUserListView \/ BorrowedListView \/ ResponseSent

SpecRenew == InitRenew /\ [][NextRenew]_vars

\* The seven mutating views and the detail views.
InitAdmin ==
    /\ today = FirstDay
    /\ book_instances = [pk \in {1} |-> Instance(<<FirstDay>>, "o", "member")]
    /\ authors = [pk \in {1} |-> [last_name |-> "Martin"]]
    /\ books = [pk \in {1} |-> [title |-> TitleAGameOfThrones]]
    /\ session = [u \in Users |-> <<>>]
    /\ requests = [r \in RequestSlots |-> Idle]
    /\ resp = NoResponse

NextAdmin ==
    \/ AuthorCreate \/ AuthorUpdate \/ AuthorDelete
    \/ BookCreate \/ BookUpdate \/ BookDelete
    \/ Renew
    \/ AuthorDetailView \/ BookDetailView
    \/ ResponseSent

SpecAdmin == InitAdmin /\ [][NextAdmin]_vars

\* The home page over every catalog of MaxBooks titles, one request at a time.
InitTitles ==
    /\ today = FirstDay
    /\ book_instances = [pk \in {1} |-> Instance(<<>>, "a", "None")]
    /\ authors = [pk \in {1} |-> [last_name |-> "Martin"]]
    /\ books \in [BookIds -> [title : Titles]]
    /\ session = [u \in Users |-> <<>>]
    /\ requests = [r \in RequestSlots |-> Idle]
    /\ resp = NoResponse

NextTitles ==
    \/ \E u \in Users : IndexRead(1, u)
    \/ IndexWrite(1)
    \/ ResponseSent

SpecTitles == InitTitles /\ [][NextTitles]_vars

\* The home page with overlapping requests.
InitVisits ==
    /\ today = FirstDay
    /\ book_instances = [pk \in {1} |-> Instance(<<>>, "a", "None")]
    /\ authors = [pk \in {1} |-> [last_name |-> "Martin"]]
    /\ books = [pk \in {1} |-> [title |-> TitleAGameOfThrones]]
    /\ session = [u \in Users |-> <<>>]
    /\ requests = [r \in RequestSlots |-> Idle]
    /\ resp = NoResponse

NextVisits ==
    \/ \E r \in RequestSlots, u \in {"anon", "member"} : IndexRead(r, u)
    \/ \E r \in RequestSlots : IndexWrite(r)
    \/ ResponseSent

SpecVisits == InitVisits /\ [][NextVisits]_vars

-----------------------------------------------------------------------------
(* Properties                                                              *)

Permitted(u) == is_authenticated(u) /\ has_perm(u, can_mark_returned)

IsRenew(r) == r.view = "renew_book_librarian"

\* resp' answers a request that this step handled
Handled(view) == resp = NoResponse /\ resp'.view = view

\* today <= d <= today + 4 weeks, for a submission that is a date
DateInWindow(data) ==
    data.text_is_date /\ today <= data.date /\ data.date <= today + 28

\* C1: a POST to renew by a permitted caller for an existing instance with a
\* date d, today <= d <= today + 4 weeks, leaves due_back = d and answers
\* with a redirect to the 'all borrowed' view.
C1_RenewInWindowSucceeds ==
    (/\ IsRenew(resp) /\ resp.method = "POST"
     /\ Permitted(resp.user)
     /\ resp.pk \in DOMAIN book_instances
     /\ DateInWindow(resp.extra.data))
    => /\ book_instances[resp.pk].due_back = <<resp.extra.data.date>>
       /\ resp.status = 302
       /\ resp.location = "all-borrowed"

C1_Witness ==
    /\ IsRenew(resp) /\ resp.method = "POST" /\ resp.user = "librarian"
    /\ resp.pk \in DOMAIN book_instances
    /\ resp.extra.data.text_is_date /\ resp.extra.data.date = today + 28
    /\ book_instances[resp.pk].due_back = <<today + 28>>
    /\ resp.status = 302

C3_AsStated ==
    (IsRenew(resp) /\ ~has_perm(resp.user, can_mark_returned))
    => resp.status = 403

\* C3: a renew by a caller without can_mark_returned never reaches the lookup
\* or the form and leaves the store unchanged, whatever the id and the date:
\* an authenticated caller is answered Forbidden, an anonymous caller is
\* redirected to the login page.
C3_RenewWithoutPermissionDenied ==
    [][(Handled("renew_book_librarian") /\ ~has_perm(resp'.user, can_mark_returned))
       => /\ book_instances' = book_instances
          /\ IF is_authenticated(resp'.user)
             THEN resp'.status = 403
             ELSE resp'.status = 302 /\ resp'.location = "login"]_vars

C3_Witness ==
    /\ IsRenew(resp) /\ resp.user = "member" /\ resp.method = "POST"
    /\ resp.pk \in DOMAIN book_instances
    /\ DateInWindow(resp.extra.data)
    /\ resp.status = 403
    /\ book_instances[resp.pk].due_back # <<resp.extra.data.date>>

\* C4 as stated: every renew of an absent id is answered NotFound, whoever
\* the caller is.
C4_AsStated ==
    (IsRenew(resp) /\ resp.pk \notin DOMAIN book_instances)
    => resp.status = 404

\* C4: a renew of an absent id by a permitted caller is answered NotFound for
\* every method and date; for any other caller the access check answers first
\* (Forbidden, or the login redirect for an anonymous caller).
C4_RenewAbsentInstance ==
    (IsRenew(resp) /\ resp.pk \notin DOMAIN book_instances)
    => IF Permitted(resp.user) THEN resp.status = 404
       ELSE IF is_authenticated(resp.user) THEN resp.status = 403
       ELSE resp.status = 302 /\ resp.location = "login"

C4_Witness ==
    /\ IsRenew(resp) /\ resp.user = "librarian" /\ resp.method = "POST"
    /\ resp.pk \notin DOMAIN book_instances
    /\ DateInWindow(resp.extra.data)
    /\ resp.status = 404

Range(q) == {q[i] : i \in 1..Len(q)}

C6_NumTitleIgnoresCase ==
    resp.view = "index"
    => resp.extra.num_title =
         Cardinality({pk \in DOMAIN books :
                        substring_of(lower(GameOfThrones), lower(books[pk].title))})

Store == <<authors, books, book_instances>>

MutatingViews ==
    {"AuthorCreate", "AuthorUpdate", "AuthorDelete",
     "BookCreate", "BookUpdate", "BookDelete", "renew_book_librarian"}

\* C7: a step that changes the catalog store is a request to one of the
\* seven mutating views by an authenticated caller holding can_mark_returned;
\* a request of any other caller leaves the store unchanged.
C7_OnlyPermittedCallersMutate ==
    [][(Store' # Store)
       => /\ resp = NoResponse
          /\ resp'.view \in MutatingViews
          /\ is_authenticated(resp'.user)
          /\ has_perm(resp'.user, can_mark_returned)]_vars

C7_Witness ==
    /\ resp.view = "AuthorUpdate" /\ resp.user = "librarian"
    /\ resp.status = 302
    /\ authors[resp.pk] = resp.extra.form.row
    /\ authors[resp.pk].last_name = "Herbert"

DeleteRemoves(view, table, table_after, list) ==
    (/\ Handled(view) /\ resp'.method = "POST"
     /\ Permitted(resp'.user)
     /\ resp'.pk \in DOMAIN table)
    => /\ resp'.pk \notin DOMAIN table_after
       /\ resp'.status = 302 /\ resp'.location = list

StaysAbsent(view, table, table_after) ==
    \A pk \in DOMAIN table_after \ DOMAIN table : Handled(view) /\ resp'.pk = pk

AbsentIsNotFound(view, table) ==
    (Handled(view) /\ resp'.pk \notin DOMAIN table) => resp'.status = 404

\* C8: a confirmed delete of an Author or Book by a permitted caller removes
\* the row and redirects to the list; an absent id becomes present again only
\* by a create that is given that id; and a detail fetch of an absent id is
\* answered NotFound.
C8_DeletedStaysNotFound ==
    [][/\ DeleteRemoves("AuthorDelete", authors, authors', "authors")
       /\ DeleteRemoves("BookDelete", books, books', "books")
       /\ StaysAbsent("AuthorCreate", authors, authors')
       /\ StaysAbsent("BookCreate", books, books')
       /\ AbsentIsNotFound("AuthorDetailView", authors)
       /\ AbsentIsNotFound("BookDetailView", books)]_vars

C8_Witness ==
    /\ resp.view = "BookDelete" /\ resp.method = "POST" /\ resp.user = "librarian"
    /\ resp.status = 302 /\ resp.location = "books"
    /\ resp.pk \notin DOMAIN books

Writes(r) == requests[r].pc = "read" /\ requests'[r].pc = "idle"
Reads(r) == requests[r].pc = "idle" /\ requests'[r].pc = "read"

\* C9: the home view reads num_visits (0 when absent) and later stores the
\* value it read plus one, whatever the counter holds by then; a request
\* that no other request of the same caller overlapped raises the stored
\* counter by exactly one.
C9_VisitCounterReadThenWrite ==
    [][\A r \in RequestSlots :
         /\ Reads(r) =>
              requests'[r].num_visits =
                 (IF session[requests'[r].user] = <<>> THEN 0
                  ELSE session[requests'[r].user][1])
         /\ Writes(r) =>
              LET u == requests[r].user IN
              /\ session'[u] = <<requests[r].num_visits + 1>>
              /\ \A v \in Users \ {u} : session'[v] = session[v]
              /\ ~requests[r].overlapped =>
                   session'[u] = <<(IF session[u] = <<>> THEN 0 ELSE session[u][1]) + 1>>]_vars

\* A lost update: a request that overlapped another of the same caller has
\* answered, no request is in flight, and the counter stands at 1.
C9_Witness ==
    /\ resp.view = "index" /\ resp.extra.overlapped
    /\ \A r \in RequestSlots : requests[r].pc = "idle"
    /\ session[resp.user] = <<1>>

BorrowerIffOnLoan(rows) ==
    \A pk \in DOMAIN rows : (rows[pk].borrower # "None") <=> (rows[pk].status = "o")

\* C10: a renew request changes at most the due_back of the instance it
\* names; so 'borrower is non-null iff status is on-loan' is preserved.
C10_RenewChangesOnlyDueBack ==
    [][Handled("renew_book_librarian")
       => /\ DOMAIN book_instances' = DOMAIN book_instances
          /\ \A pk \in DOMAIN book_instances :
               /\ book_instances'[pk].status = book_instances[pk].status
               /\ book_instances'[pk].borrower = book_instances[pk].borrower
               /\ book_instances'[pk].book = book_instances[pk].book
               /\ book_instances'[pk].imprint = book_instances[pk].imprint
               /\ pk # resp'.pk => book_instances'[pk] = book_instances[pk]
          /\ BorrowerIffOnLoan(book_instances) => BorrowerIffOnLoan(book_instances')]_vars

C10_Witness ==
    /\ IsRenew(resp) /\ resp.status = 302 /\ resp.location = "all-borrowed"
    /\ resp.pk \in DOMAIN book_instances
    /\ BorrowerIffOnLoan(book_instances)
    /\ book_instances[resp.pk].status = "a"
    /\ book_instances[resp.pk].due_back = <<today + 28>>
    /\ \E pk \in DOMAIN book_instances : book_instances[pk].status = "o"

=============================================================================
